---- MODULE Spec2Model ----
(***************************************************************************)
(* httpd report generator: the log-line parser (parseConnectionFromLine,   *)
(* splitString), the per-source aggregation (getConnectionAttempts), the   *)
(* combination of the per-source mappings (main) and the report            *)
(* (printUniqueIpStats).                                                   *)
(*                                                                         *)
(* A std::string is a sequence of one-character strings, indexed from 0 as *)
(* in the code (element i of the string is s[i + 1]).  A size_t is kept    *)
(* modulo 2^64: string::npos, the largest size_t, is written -1, so that   *)
(* npos + 1 = 0 as in the code, and a negative number stands for a size_t  *)
(* larger than every string length.                                        *)
(***************************************************************************)
EXTENDS Integers, Sequences, FiniteSets, TLC

\* ------------------------------------------------------------------------
\* std::string primitives
\* ------------------------------------------------------------------------

NPOS == -1

Min(S) == CHOOSE x \in S : \A y \in S : x <= y

\* string::find(char, pos): the first index >= pos holding c, else npos
Find(s, c, pos) ==
    IF pos < 0 \/ pos >= Len(s) THEN NPOS
    ELSE LET hits == {i \in pos..(Len(s) - 1) : s[i + 1] = c}
         IN  IF hits = {} THEN NPOS ELSE Min(hits)

\* string::find_first_of(delimiters, pos)
FindFirstOf(s, delimiters, pos) ==
    IF pos < 0 \/ pos >= Len(s) THEN NPOS
    ELSE LET hits == {i \in pos..(Len(s) - 1) : s[i + 1] \in delimiters}
         IN  IF hits = {} THEN NPOS ELSE Min(hits)

\* string::find_first_not_of(delimiters, pos)
FindFirstNotOf(s, delimiters, pos) ==
    IF pos < 0 \/ pos >= Len(s) THEN NPOS
    ELSE LET hits == {i \in pos..(Len(s) - 1) : s[i + 1] \notin delimiters}
         IN  IF hits = {} THEN NPOS ELSE Min(hits)

\* string::substr(pos, n) throws std::out_of_range exactly when pos > size()
SubstrThrows(s, pos) == pos < 0 \/ pos > Len(s)

\* string::substr(pos, n) for pos <= size(): min(n, size() - pos) characters
\* from pos; n is a size_t, so a negative n is a count beyond every length
Substr(s, pos, n) ==
    LET cnt == IF n < 0 \/ n > Len(s) - pos THEN Len(s) - pos ELSE n
    IN  SubSeq(s, pos + 1, pos + cnt)

\* ------------------------------------------------------------------------
\* std::atoi
\* ------------------------------------------------------------------------

Digits == <<"0", "1", "2", "3", "4", "5", "6", "7", "8", "9">>

IsDigit(c) == \E d \in 1..10 : Digits[d] = c

DigitVal(c) == (CHOOSE d \in 1..10 : Digits[d] = c) - 1

Half == 65536

\* the digits of s from index i on, accumulated as acc * 10 + digit in a
\* 32-bit register kept as two 16-bit halves <<hi, lo>>
RECURSIVE AtoiDigits(_, _, _)
AtoiDigits(s, i, acc) ==
    IF i >= Len(s) \/ ~IsDigit(s[i + 1]) THEN acc
    ELSE LET lo == acc[2] * 10 + DigitVal(s[i + 1])
             hi == acc[1] * 10 + (lo \div Half)
         IN  AtoiDigits(s, i + 1, <<hi % Half, lo % Half>>)

\* the two's-complement int held by the register <<hi, lo>>
ToInt32(acc) ==
    IF acc[1] >= Half \div 2 THEN (acc[1] - Half) * Half + acc[2]
    ELSE acc[1] * Half + acc[2]

\* the negation of the register, modulo 2^32
Neg32(acc) ==
    IF acc = <<0, 0>> THEN acc
    ELSE IF acc[2] = 0 THEN <<Half - acc[1], 0>>
    ELSE <<Half - 1 - acc[1], Half - acc[2]>>

\* atoi: leading white space is skipped, then an optional sign, then the
\* longest run of digits; no digits give 0.  The result is an int: a value
\* that does not fit is reduced modulo 2^32.
Atoi(s) ==
    LET start == FindFirstNotOf(s, {" ", "\t", "\n", "\r"}, 0)
        signed == start # NPOS /\ s[start + 1] \in {"-", "+"}
        first == IF start = NPOS THEN Len(s)
                 ELSE IF signed THEN start + 1 ELSE start
        mag == AtoiDigits(s, first, <<0, 0>>)
    IN  IF signed /\ s[start + 1] = "-" THEN ToInt32(Neg32(mag))
        ELSE ToInt32(mag)

\* a non-empty run of digits
IsNumber(s) == s # <<>> /\ \A i \in 1..Len(s) : IsDigit(s[i])

\* std::to_string of an int
RECURSIVE DecimalDigits(_)
DecimalDigits(n) ==
    IF n < 10 THEN <<Digits[n + 1]>>
    ELSE Append(DecimalDigits(n \div 10), Digits[(n % 10) + 1])

Decimal(n) == IF n < 0 THEN <<"-">> \o DecimalDigits(0 - n) ELSE DecimalDigits(n)

\* ------------------------------------------------------------------------
\* splitString
\* ------------------------------------------------------------------------

\* the while loop of splitString
RECURSIVE SplitLoop(_, _, _, _, _)
SplitLoop(str, delimiters, lastPos, pos, tokens) ==
    IF pos = NPOS /\ lastPos = NPOS THEN tokens
    ELSE LET tok == Substr(str, lastPos, pos - lastPos)
             nextLast == IF pos = NPOS THEN NPOS ELSE pos + 1
         IN  SplitLoop(str, delimiters, nextLast,
                       FindFirstOf(str, delimiters, nextLast),
                       Append(tokens, tok))

\* the tokens splitString appends to an empty vector
splitString(str, delimiters) ==
    LET lastPos == FindFirstNotOf(str, delimiters, 0)
        pos == FindFirstOf(str, delimiters, lastPos)
    IN  SplitLoop(str, delimiters, lastPos, pos, <<>>)

\* ------------------------------------------------------------------------
\* parseConnectionFromLine
\* ------------------------------------------------------------------------

\* Connection(): the default-constructed record
EmptyConnection ==
    [clientSource |-> <<>>, clientId |-> <<>>, userId |-> <<>>,
     timestamp |-> <<>>, httpRequestMethod |-> <<>>, requestUri |-> <<>>,
     httpVersion |-> <<>>, httpStatusCode |-> 0, responseSize |-> 0]

\* what reading a std::string from beyond the end of the token vector
\* yields when the read neither faults nor throws: some string that is no
\* part of the line
GarbageStrings == {<<"?">>}

\* the parser's locals on entry; starts and tokens record, for the
\* properties, the start offsets handed to substr and the token vector
ParserEntry(l) ==
    [line |-> l, offset |-> 0, offset2 |-> 0, connection |-> EmptyConnection,
     state |-> "Source", starts |-> <<>>, tokens |-> <<>>]

Thrown(p, pos) == [p EXCEPT !.state = "Thrown", !.starts = Append(@, pos)]

\* line 295
PSource(p) ==
    LET o2 == Find(p.line, " ", 0)
    IN  {[p EXCEPT !.offset2 = o2,
                   !.connection.clientSource = Substr(p.line, 0, o2),
                   !.starts = Append(@, 0),
                   !.state = "ClientId"]}

\* lines 296-298
PClientId(p) ==
    LET o == p.offset2 + 1
        o2 == Find(p.line, " ", o)
        q == [p EXCEPT !.offset = o, !.offset2 = o2]
    IN  IF SubstrThrows(p.line, o) THEN {Thrown(q, o)}
        ELSE {[q EXCEPT !.connection.clientId = Substr(p.line, o, o2 - o),
                        !.starts = Append(@, o),
                        !.state = "UserId"]}

\* lines 299-301
PUserId(p) ==
    LET o == p.offset2 + 1
        o2 == Find(p.line, " ", o)
        q == [p EXCEPT !.offset = o, !.offset2 = o2]
    IN  IF SubstrThrows(p.line, o) THEN {Thrown(q, o)}
        ELSE {[q EXCEPT !.connection.userId = Substr(p.line, o, o2 - o),
                        !.starts = Append(@, o),
                        !.state = "Timestamp"]}

\* lines 302-304
PTimestamp(p) ==
    LET o == Find(p.line, "[", p.offset2 + 1) + 1
        o2 == Find(p.line, "]", o)
        q == [p EXCEPT !.offset = o, !.offset2 = o2]
    IN  IF SubstrThrows(p.line, o) THEN {Thrown(q, o)}
        ELSE {[q EXCEPT !.connection.timestamp = Substr(p.line, o, o2 - o),
                        !.starts = Append(@, o),
                        !.state = "RequestLine"]}

\* tokens[i] of lines 311-313 (i counted from 0): the token when there is
\* one; otherwise the read is past the end of the vector and undefined
TokenReads(tokens, i) ==
    IF i < Len(tokens) THEN {tokens[i + 1]} ELSE GarbageStrings

\* lines 305-314.  With fewer than three tokens the behaviour is undefined:
\* the process faults, or copying the string read past the end throws, or
\* the fields are filled with whatever was read.
PRequestLine(p) ==
    LET o == Find(p.line, "\"", p.offset2 + 1) + 1
        o2 == Find(p.line, "\"", o + 1)
        q == [p EXCEPT !.offset = o, !.offset2 = o2]
    IN  IF SubstrThrows(p.line, o) THEN {Thrown(q, o)}
        ELSE LET toks == splitString(Substr(p.line, o, o2 - o),
                                     {" ", "\t", "\n", "\r"})
                 r == [q EXCEPT !.starts = Append(@, o), !.tokens = toks]
                 filled == {[r EXCEPT !.connection.httpRequestMethod = m,
                                      !.connection.requestUri = u,
                                      !.connection.httpVersion = v,
                                      !.state = "Status"] :
                               m \in TokenReads(toks, 0),
                               u \in TokenReads(toks, 1),
                               v \in TokenReads(toks, 2)}
             IN  IF Len(toks) >= 3 THEN filled
                 ELSE filled \cup {[r EXCEPT !.state = "Crashed"],
                                   [r EXCEPT !.state = "Thrown"]}

\* lines 316-318
PStatus(p) ==
    LET o == Find(p.line, " ", p.offset2)
        o2 == Find(p.line, " ", o + 1)
        q == [p EXCEPT !.offset = o, !.offset2 = o2]
    IN  IF SubstrThrows(p.line, o) THEN {Thrown(q, o)}
        ELSE {[q EXCEPT !.connection.httpStatusCode =
                            Atoi(Substr(p.line, o, o2 - o)),
                        !.starts = Append(@, o),
                        !.state = "Size"]}

\* lines 319-322
PSize(p) ==
    LET o == p.offset2 + 1
        q == [p EXCEPT !.offset = o]
    IN  IF SubstrThrows(p.line, o) THEN {Thrown(q, o)}
        ELSE {[q EXCEPT !.connection.responseSize =
                            Atoi(Substr(p.line, o, NPOS)),
                        !.starts = Append(@, o),
                        !.state = "Done"]}

ParserFinal == {"Done", "Thrown", "Crashed"}

\* one step of the parser from p
PStep(p) ==
    CASE p.state = "Source" -> PSource(p)
      [] p.state = "ClientId" -> PClientId(p)
      [] p.state = "UserId" -> PUserId(p)
      [] p.state = "Timestamp" -> PTimestamp(p)
      [] p.state = "RequestLine" -> PRequestLine(p)
      [] p.state = "Status" -> PStatus(p)
      [] p.state = "Size" -> PSize(p)
      [] OTHER -> {p}

RECURSIVE PRun(_)
PRun(ps) ==
    IF \A p \in ps : p.state \in ParserFinal THEN ps
    ELSE PRun(UNION {PStep(p) : p \in ps})

\* every way a call parseConnectionFromLine(l) can end: a returned record
\* (state "Done"), an exception ("Thrown") or a fault ("Crashed")
parseConnectionFromLine(l) == PRun({ParserEntry(l)})

\* ------------------------------------------------------------------------
\* The lines the parser is run on
\* ------------------------------------------------------------------------

\* readLogFiles keeps a line only when it contains the text HTTP/1.1
Http11 == <<"H", "T", "T", "P", "/", "1", ".", "1">>

\* string::find(str): the first index at which needle occurs in s, else npos
FindStr(s, needle) ==
    LET hits == {i \in 0..(Len(s) - Len(needle)) :
                    SubSeq(s, i + 1, i + Len(needle)) = needle}
    IN  IF hits = {} THEN NPOS ELSE Min(hits)

\* the filter of readLogFiles
KeepLine(l) == FindStr(l, Http11) # NPOS

Sp == <<" ">>

\* a line put together from its segments; an empty delimiter, status or
\* size is one that is missing from the line
BuildLine(g) ==
    g.src \o Sp \o g.cid \o Sp \o g.uid \o Sp \o g.lb \o g.ts \o g.rb \o Sp
          \o g.q1 \o g.req \o g.q2
          \o (IF g.st = <<>> THEN <<>> ELSE Sp \o g.st)
          \o (IF g.sz = <<>> THEN <<>> ELSE Sp \o g.sz)

Requests ==
    {[text |-> <<"G", " ", "/", " ", "H", "T", "T", "P", "/", "1", ".", "1">>,
      toks |-> <<<<"G">>, <<"/">>, Http11>>],
     [text |-> <<"G", " ", "H", "T", "T", "P", "/", "1", ".", "1">>,
      toks |-> <<<<"G">>, Http11>>],
     [text |-> Http11, toks |-> <<Http11>>],
     [text |-> <<"G", "E", "T", "\t", "/", "x", " ", "H", "T", "T", "P", "/", "1", ".", "1">>,
      toks |-> <<<<"G", "E", "T">>, <<"/", "x">>, Http11>>]}

Tails ==
    {[st |-> <<"2", "0", "0">>, sz |-> <<"5">>],
     [st |-> <<"4", "0", "4">>, sz |-> <<"-">>],
     [st |-> <<"a", "b", "c">>, sz |-> <<"5">>],
     [st |-> <<"2", "0", "0">>, sz |-> <<>>],
     [st |-> <<"3", "0", "2">>, sz |-> <<"2", "3", "2", "6">>],
     [st |-> <<"2", "0", "0">>,
      sz |-> <<"3", "0", "0", "0", "0", "0", "0", "0", "0", "0">>],
     [st |-> <<>>, sz |-> <<>>]}

\* the segments the lines are built from
Givens ==
    {[src |-> s, cid |-> <<"-">>, uid |-> u, lb |-> lb, ts |-> ts, rb |-> rb,
      q1 |-> q1, req |-> r.text, toks |-> r.toks, q2 |-> q2,
      st |-> t.st, sz |-> t.sz] :
        s \in {<<"a">>, <<"b", ".", "c">>},
        u \in {<<"-">>, <<"u">>},
        lb \in {<<"[">>, <<>>},
        ts \in {<<"t">>, <<"d", " ", "-", "0">>},
        rb \in {<<"]">>, <<>>},
        q1 \in {<<"\"">>, <<>>},
        r \in Requests,
        q2 \in {<<"\"">>, <<>>},
        t \in Tails}

\* the example line of the specification
ExampleGiven ==
    [src |-> <<"1", "2", "7", ".", "0", ".", "0", ".", "1">>,
     cid |-> <<"-">>, uid |-> <<"-">>, lb |-> <<"[">>,
     ts |->
        <<"1", "0", "/", "O", "c", "t", "/", "2", "0", "2", "3", ":", "1",
        "3", ":", "5", "5", ":", "3", "6", " ", "-", "0", "7", "0", "0">>,
     rb |-> <<"]">>, q1 |-> <<"\"">>,
     req |->
        <<"G", "E", "T", " ", "/", "i", "n", "d", "e", "x", ".", "h", "t",
        "m", "l", " ", "H", "T", "T", "P", "/", "1", ".", "1">>,
     toks |-> <<<<"G", "E", "T">>,
                <<"/", "i", "n", "d", "e", "x", ".", "h", "t", "m", "l">>,
                Http11>>,
     q2 |-> <<"\"">>, st |-> <<"2", "0", "0">>,
     sz |-> <<"2", "3", "2", "6">>]

AllGivens == {g \in Givens \cup {ExampleGiven} : KeepLine(BuildLine(g))}

\* ------------------------------------------------------------------------
\* State
\* ------------------------------------------------------------------------

VARIABLES
    \* one call of parseConnectionFromLine
    line,             \* the argument
    given,            \* the segments the argument was built from
    offset,           \* the local offset
    offset2,          \* the local offset2
    connection,       \* the local connection
    pstate,           \* the field the parser extracts next, or how it ended
    starts,           \* the start offsets handed to substr so far
    tokens,           \* the token vector of the request
    \* one run of main
    pc,               \* "main", "report", "done" or "crashed"
    logLines,         \* the lines of the current source read so far
    parsed,           \* the records the parser returned for them, in order
    connections,      \* getConnectionAttempts: the current source's mapping
    perSource,        \* the mappings returned for the sources merged so far
    totalConnections, \* main: the merged mapping
    discovered,       \* the client sources in the order first seen
    totalUniqueIps,   \* the number printed in the report's head, -1 before
    output,           \* the tables printed so far
    errors,           \* the number of messages written to std::cerr
    \* one call of getSpacerStrings
    spWidth,          \* the argument width
    spCentre,         \* the argument centreString
    spResult,         \* its outcome, of state "None" before it returns
    \* one call of splitString
    splitStr,         \* the argument str
    splitDelims,      \* the argument delimiters
    splitTokens,      \* the argument tokens, a reference
    splitResult       \* "none" before the call returns, then "true" or "false"

parserVars == <<line, given, offset, offset2, connection, pstate, starts,
                tokens>>

mainVars == <<pc, logLines, parsed, connections, perSource, totalConnections,
              discovered, totalUniqueIps, output, errors>>

callVars == <<spWidth, spCentre, spResult, splitStr, splitDelims, splitTokens,
              splitResult>>

vars == <<parserVars, mainVars, callVars>>

\* the empty std::map
EmptyMap == <<>>

ParserIdle ==
    /\ line = <<>>
    /\ given = ExampleGiven
    /\ offset = 0
    /\ offset2 = 0
    /\ connection = EmptyConnection
    /\ pstate = "Idle"
    /\ starts = <<>>
    /\ tokens = <<>>

\* main before its loop
MainEntry ==
    /\ pc = "main"
    /\ logLines = <<>>
    /\ parsed = <<>>
    /\ connections = EmptyMap
    /\ perSource = <<>>
    /\ totalConnections = EmptyMap
    /\ discovered = <<>>
    /\ totalUniqueIps = -1
    /\ output = <<>>
    /\ errors = 0

\* the outcome of a call of getSpacerStrings that has not returned
SpacerNone == [state |-> "None", first |-> <<>>, second |-> <<>>]

\* no call of getSpacerStrings or splitString on its own is under way
CallIdle ==
    /\ spWidth = 0
    /\ spCentre = <<>>
    /\ spResult = SpacerNone
    /\ splitStr = <<>>
    /\ splitDelims = {}
    /\ splitTokens = <<>>
    /\ splitResult = "none"

\* ------------------------------------------------------------------------
\* The parser, one field at a time
\* ------------------------------------------------------------------------

ParserState ==
    [line |-> line, offset |-> offset, offset2 |-> offset2,
     connection |-> connection, state |-> pstate, starts |-> starts,
     tokens |-> tokens]

ParserBecomes(q) ==
    /\ line' = q.line
    /\ offset' = q.offset
    /\ offset2' = q.offset2
    /\ connection' = q.connection
    /\ pstate' = q.state
    /\ starts' = q.starts
    /\ tokens' = q.tokens
    /\ UNCHANGED <<given, mainVars, callVars>>

InitParse ==
    /\ given \in AllGivens
    /\ line = BuildLine(given)
    /\ offset = 0
    /\ offset2 = 0
    /\ connection = EmptyConnection
    /\ pstate = "Source"
    /\ starts = <<>>
    /\ tokens = <<>>
    /\ MainEntry
    /\ CallIdle

StepSource ==
    /\ pstate = "Source"
    /\ \E q \in PSource(ParserState) : ParserBecomes(q)

StepClientId ==
    /\ pstate = "ClientId"
    /\ \E q \in PClientId(ParserState) : ParserBecomes(q)

StepUserId ==
    /\ pstate = "UserId"
    /\ \E q \in PUserId(ParserState) : ParserBecomes(q)

StepTimestamp ==
    /\ pstate = "Timestamp"
    /\ \E q \in PTimestamp(ParserState) : ParserBecomes(q)

StepRequestLine ==
    /\ pstate = "RequestLine"
    /\ \E q \in PRequestLine(ParserState) : ParserBecomes(q)

StepStatus ==
    /\ pstate = "Status"
    /\ \E q \in PStatus(ParserState) : ParserBecomes(q)

StepSize ==
    /\ pstate = "Size"
    /\ \E q \in PSize(ParserState) : ParserBecomes(q)

NextParse ==
    \/ StepSource
    \/ StepClientId
    \/ StepUserId
    \/ StepTimestamp
    \/ StepRequestLine
    \/ StepStatus
    \/ StepSize

SpecParse == InitParse /\ [][NextParse]_vars

\* ------------------------------------------------------------------------
\* std::map<string, vector<Connection>>
\* ------------------------------------------------------------------------

\* the value of a character as an unsigned char
CharCode(c) ==
    CASE c = "\t" -> 9 [] c = " " -> 32 [] c = "\"" -> 34 [] c = "-" -> 45
      [] c = "." -> 46 [] c = "/" -> 47 [] c = "0" -> 48 [] c = "1" -> 49
      [] c = "2" -> 50 [] c = "3" -> 51 [] c = "4" -> 52 [] c = "5" -> 53
      [] c = "6" -> 54 [] c = "7" -> 55 [] c = "8" -> 56 [] c = "9" -> 57
      [] c = ":" -> 58 [] c = "?" -> 63 [] c = "B" -> 66
      [] c = "E" -> 69 [] c = "G" -> 71
      [] c = "H" -> 72 [] c = "O" -> 79 [] c = "P" -> 80 [] c = "T" -> 84
      [] c = "[" -> 91 [] c = "]" -> 93 [] c = "a" -> 97 [] c = "b" -> 98
      [] c = "c" -> 99 [] c = "d" -> 100 [] c = "e" -> 101 [] c = "h" -> 104
      [] c = "i" -> 105 [] c = "l" -> 108 [] c = "m" -> 109 [] c = "n" -> 110
      [] c = "t" -> 116 [] c = "u" -> 117 [] c = "x" -> 120

\* std::less<string>: the order in which a map is iterated
LexLess(a, b) ==
    \E i \in 1..(Len(b)) :
        /\ i <= Len(a) + 1
        /\ SubSeq(a, 1, i - 1) = SubSeq(b, 1, i - 1)
        /\ (i = Len(a) + 1 \/ CharCode(a[i]) < CharCode(b[i]))

\* SortedKeys with the comparison of the map reversed
RECURSIVE SortedKeysDescending(_)
SortedKeysDescending(keys) ==
    IF keys = {} THEN <<>>
    ELSE LET first == CHOOSE k \in keys : \A o \in keys \ {k} : LexLess(o, k)
         IN  <<first>> \o SortedKeysDescending(keys \ {first})

\* the keys of a map in iteration order
RECURSIVE SortedKeys(_)
SortedKeys(keys) ==
    IF keys = {} THEN <<>>
    ELSE LET first == CHOOSE k \in keys : \A o \in keys \ {k} : LexLess(k, o)
         IN  <<first>> \o SortedKeys(keys \ {first})

\* what operator<< writes for a sequence of strings, one after the other
RECURSIVE Flatten(_)
Flatten(strings) ==
    IF strings = <<>> THEN <<>>
    ELSE Head(strings) \o Flatten(Tail(strings))

\* map::emplace(k, v) for a key the map does not hold
Emplace(m, k, v) == [x \in DOMAIN m \cup {k} |-> IF x = k THEN v ELSE m[x]]

\* ------------------------------------------------------------------------
\* getConnectionAttempts, main, printUniqueIpStats
\* ------------------------------------------------------------------------

\* AddConnection with the record put at the front of an existing group
AddConnectionAtFront(conns, conn) ==
    IF conn.clientSource \notin DOMAIN conns
    THEN Emplace(conns, conn.clientSource, <<conn>>)
    ELSE [conns EXCEPT ![conn.clientSource] = <<conn>> \o @]

\* lines 236-241: the record goes into a new group or to the end of the
\* group of its client source
AddConnection(conns, conn) ==
    IF conn.clientSource \notin DOMAIN conns
    THEN Emplace(conns, conn.clientSource, <<conn>>)
    ELSE [conns EXCEPT ![conn.clientSource] = Append(@, conn)]

\* InsertBeforeLast with the last element overwritten by the new elements
InsertOverLast(v, new) == SubSeq(v, 1, Len(v) - 1) \o new

\* vector::insert(end() - 1, first, last): the new elements go before the
\* last element of the vector
InsertBeforeLast(v, new) ==
    SubSeq(v, 1, Len(v) - 1) \o new \o SubSeq(v, Len(v), Len(v))

\* MergeEntry with the group of a client already held replaced by the group
\* of the new source
MergeEntryOverwriting(total, k, v) ==
    [x \in DOMAIN total \cup {k} |-> IF x = k THEN v ELSE total[x]]

\* lines 202-208: one entry of a source's mapping is combined into total
MergeEntry(total, k, v) ==
    IF k \notin DOMAIN total THEN Emplace(total, k, v)
    ELSE [total EXCEPT ![k] = InsertBeforeLast(@, v)]

\* lines 201-209: the entries of a source's mapping, in key order
RECURSIVE MergeEntries(_, _, _)
MergeEntries(total, conns, keys) ==
    IF keys = <<>> THEN total
    ELSE MergeEntries(MergeEntry(total, Head(keys), conns[Head(keys)]),
                      conns, Tail(keys))

MergeInto(total, conns) == MergeEntries(total, conns, SortedKeys(DOMAIN conns))

\* the status codes printUniqueIpStats has a counter for
Tracked == {200, 204, 301, 400, 401, 403, 404, 500, 503}

NoTotals == [c \in Tracked |-> 0]

\* CountTotals with the break of case INTERNAL_SERVER_ERROR missing: a 500
\* falls through to the counter of 503 as well
RECURSIVE CountTotalsFallThrough(_, _)
CountTotalsFallThrough(records, totals) ==
    IF records = <<>> THEN totals
    ELSE LET code == Head(records).httpStatusCode
         IN  CountTotalsFallThrough(
                 Tail(records),
                 IF code = 500
                 THEN [totals EXCEPT ![500] = @ + 1, ![503] = @ + 1]
                 ELSE IF code \in Tracked
                 THEN [totals EXCEPT ![code] = @ + 1]
                 ELSE totals)

\* lines 498-511: the switch over the records of a group
RECURSIVE CountTotals(_, _)
CountTotals(records, totals) ==
    IF records = <<>> THEN totals
    ELSE LET code == Head(records).httpStatusCode
         IN  CountTotals(Tail(records),
                         IF code \in Tracked
                         THEN [totals EXCEPT ![code] = @ + 1]
                         ELSE totals)

\* countHttpResults: count_if over the records of a client
countHttpResults(connectionList, statusCode) ==
    Cardinality({i \in 1..Len(connectionList) :
                    connectionList[i].httpStatusCode = statusCode})

\* one table of the report: the client source and its nine counters
TableOf(k, records) ==
    [source |-> k, totals |-> CountTotals(records, NoTotals)]

\* ------------------------------------------------------------------------
\* The lines main is run on
\* ------------------------------------------------------------------------

MaxLines == 3

MaxSources == 3

BaseGiven ==
    [src |-> <<"a">>, cid |-> <<"-">>, uid |-> <<"-">>, lb |-> <<"[">>,
     ts |-> <<"t">>, rb |-> <<"]">>, q1 |-> <<"\"">>,
     req |-> <<"G", " ", "/", " ">> \o Http11,
     toks |-> <<<<"G">>, <<"/">>, Http11>>, q2 |-> <<"\"">>,
     st |-> <<"2", "0", "0">>, sz |-> <<"5">>]

MainGivens ==
    {BaseGiven,
     [BaseGiven EXCEPT !.st = <<"3", "0", "2">>],
     [BaseGiven EXCEPT !.src = <<"B">>, !.st = <<"4", "0", "4">>],
     [BaseGiven EXCEPT !.src = <<"B">>, !.rb = <<>>],
     [BaseGiven EXCEPT !.q2 = <<>>],
     [BaseGiven EXCEPT !.req = Http11, !.toks = <<Http11>>]}

\* what readLogFiles hands to getConnectionAttempts
LogLineSet == {l \in {BuildLine(g) : g \in MainGivens} : KeepLine(l)}

\* the outcomes of the parser on each of these lines
ParseTable == [l \in LogLineSet |-> parseConnectionFromLine(l)]

\* ------------------------------------------------------------------------
\* main, one loop iteration at a time
\* ------------------------------------------------------------------------

Range(f) == {f[i] : i \in DOMAIN f}

\* the lines read so far, over all sources
LinesRead ==
    Len(logLines) + Cardinality({<<i, j>> \in (1..Len(perSource)) \X (1..MaxLines) :
                                    j <= perSource[i].lines})

\* getConnectionAttempts, lines 231-245: one line of the current source.
\* An empty line is passed over; a record the parser returns is added to the
\* mapping; an exception is caught and the line skipped; a fault ends the
\* process.
ParseLine(l) ==
    /\ pc = "main"
    /\ Len(perSource) < MaxSources
    /\ LinesRead < MaxLines
    /\ logLines' = Append(logLines, l)
    /\ IF l = <<>>
       THEN UNCHANGED <<pc, parsed, connections, discovered, errors>>
       ELSE \E q \in ParseTable[l] :
              CASE q.state = "Done" ->
                     /\ connections' = AddConnection(connections, q.connection)
                     /\ parsed' = Append(parsed, q.connection)
                     /\ discovered' =
                           IF q.connection.clientSource \in Range(discovered)
                           THEN discovered
                           ELSE Append(discovered, q.connection.clientSource)
                     /\ UNCHANGED <<pc, errors>>
                [] q.state = "Thrown" ->
                     \* line 243: "Failed to parse connection info. Skipping..."
                     /\ errors' = errors + 1
                     /\ UNCHANGED <<pc, parsed, connections, discovered>>
                [] OTHER ->
                     /\ pc' = "crashed"
                     /\ UNCHANGED <<parsed, connections, discovered, errors>>
    /\ UNCHANGED <<perSource, totalConnections, totalUniqueIps, output,
                   parserVars, callVars>>

\* main, lines 199-209: getConnectionAttempts returns the mapping of the
\* current source and its entries are combined into totalConnections
MergeSource ==
    /\ pc = "main"
    /\ Len(perSource) < MaxSources
    /\ totalConnections' = MergeInto(totalConnections, connections)
    /\ perSource' = Append(perSource,
                           [lines |-> Len(logLines), connections |-> connections])
    /\ connections' = EmptyMap
    /\ logLines' = <<>>
    /\ parsed' = <<>>
    /\ UNCHANGED <<pc, discovered, totalUniqueIps, output, errors, parserVars,
                   callVars>>

\* PrintHeader with the log sources counted in place of the client sources
PrintHeaderCountingSources ==
    /\ pc = "main"
    /\ logLines = <<>>
    /\ totalUniqueIps' = Len(perSource)
    /\ pc' = "report"
    /\ UNCHANGED <<logLines, parsed, connections, perSource, totalConnections,
                   discovered, output, errors, parserVars, callVars>>

\* main, lines 212-214: the loop is over, the head of the report is printed
PrintHeader ==
    /\ pc = "main"
    /\ logLines = <<>>
    /\ totalUniqueIps' = Cardinality(DOMAIN totalConnections)
    /\ pc' = "report"
    /\ UNCHANGED <<logLines, parsed, connections, perSource, totalConnections,
                   discovered, output, errors, parserVars, callVars>>

\* printUniqueIpStats, lines 472-552: the table of the next map entry
PrintTable ==
    /\ pc = "report"
    /\ Len(output) < Cardinality(DOMAIN totalConnections)
    /\ LET k == SortedKeys(DOMAIN totalConnections)[Len(output) + 1]
       IN  output' = Append(output, TableOf(k, totalConnections[k]))
    /\ UNCHANGED <<pc, logLines, parsed, connections, perSource,
                   totalConnections, discovered, totalUniqueIps, errors,
                   parserVars, callVars>>

\* printUniqueIpStats and main return
Return ==
    /\ pc = "report"
    /\ Len(output) = Cardinality(DOMAIN totalConnections)
    /\ pc' = "done"
    /\ UNCHANGED <<logLines, parsed, connections, perSource, totalConnections,
                   discovered, totalUniqueIps, output, errors, parserVars,
                   callVars>>

Init == ParserIdle /\ MainEntry /\ CallIdle

Next ==
    \/ \E l \in LogLineSet : ParseLine(l)
    \/ MergeSource
    \/ PrintHeader
    \/ PrintTable
    \/ Return

Spec == Init /\ [][Next]_vars

\* ------------------------------------------------------------------------
\* printUniqueIpStats on its own (SpecReport)
\* ------------------------------------------------------------------------

MaxGroup == 2

\* the record parsed from the well-formed line of a client and a status
RecordOf(src, code) ==
    LET l == BuildLine([BaseGiven EXCEPT !.src = src, !.st = Decimal(code)])
    IN  (CHOOSE q \in parseConnectionFromLine(l) : q.state = "Done").connection

\* status codes no counter exists for
Untracked == {0, 302}

RecordsOf(src) == {RecordOf(src, c) : c \in Tracked \cup Untracked}

\* the groups of up to MaxGroup records of one client
GroupsOf(src) ==
    UNION {[1..n -> RecordsOf(src)] : n \in 1..MaxGroup}

\* the default of maxWidth in getLongestClientSource
MaxColumnWidth == 80

\* a client source as long as the label "Source" and one character more
SevenSource == <<"c", "l", "i", "e", "n", "t", "7">>

\* a client source one character longer than MaxColumnWidth
LongSource == [i \in 1..(MaxColumnWidth + 1) |-> "a"]

\* the mappings the report is printed for
ReportMaps ==
    {EmptyMap}
    \cup {Emplace(EmptyMap, src, <<RecordOf(src, 200)>>) :
             src \in {SevenSource, LongSource}}
    \cup {Emplace(EmptyMap, <<"a">>, g) : g \in GroupsOf(<<"a">>)}
    \cup {Emplace(Emplace(EmptyMap, <<"a">>, g),
                  <<"B">>, <<RecordOf(<<"B">>, 404)>>) :
             g \in GroupsOf(<<"a">>)}

\* the number of records of a mapping
RECURSIVE RecordCount(_, _)
RecordCount(m, keys) ==
    IF keys = {} THEN 0
    ELSE LET k == CHOOSE x \in keys : TRUE
         IN  Len(m[k]) + RecordCount(m, keys \ {k})

\* main at the call of printUniqueIpStats, after one source whose lines gave
\* the mapping m, the lines of client a first
InitReport ==
    /\ ParserIdle
    /\ pc = "report"
    /\ logLines = <<>>
    /\ parsed = <<>>
    /\ connections = EmptyMap
    /\ totalConnections \in ReportMaps
    /\ perSource = <<[lines |-> RecordCount(totalConnections,
                                            DOMAIN totalConnections),
                      connections |-> totalConnections]>>
    /\ discovered = SelectSeq(<<<<"a">>, <<"B">>, SevenSource, LongSource>>,
                              LAMBDA k : k \in DOMAIN totalConnections)
    /\ totalUniqueIps = Cardinality(DOMAIN totalConnections)
    /\ output = <<>>
    /\ errors = 0
    /\ CallIdle

NextReport ==
    \/ PrintTable
    \/ Return

SpecReport == InitReport /\ [][NextReport]_vars

\* ------------------------------------------------------------------------
\* Properties of the parser (SpecParse)
\* ------------------------------------------------------------------------

Quote == <<"\"">>

\* the line follows the layout
\* <source> <clientId> <userId> [<timestamp>] "<method> <uri> <version>"
\* <status> <size>
WellFormed(g) ==
    /\ g.lb = <<"[">> /\ g.rb = <<"]">>
    /\ g.q1 = Quote /\ g.q2 = Quote
    /\ Len(g.toks) = 3
    /\ IsNumber(g.st) /\ IsNumber(g.sz)

\* the returned record holds the segments of the line
FieldsExact ==
    /\ pstate = "Done"
    /\ connection.clientSource = given.src
    /\ connection.clientId = given.cid
    /\ connection.userId = given.uid
    /\ connection.timestamp = given.ts
    /\ connection.httpRequestMethod = given.toks[1]
    /\ connection.requestUri = given.toks[2]
    /\ connection.httpVersion = given.toks[3]
    /\ Decimal(connection.httpStatusCode) = given.st
    /\ Decimal(connection.responseSize) = given.sz

\* C1: for every well-formed line the parser returns a record whose nine
\* fields are the corresponding segments of the line, the status code and
\* the response size being the integer values of the last two fields.
C1_FieldsOfWellFormedLine ==
    (pstate \in ParserFinal /\ WellFormed(given)) => FieldsExact

\* the same for the lines whose size is below 2^31, the largest being 2326
SizeFitsInt(g) == Len(g.sz) <= 9

WellFormedSmallParsedExactly ==
    (pstate \in ParserFinal /\ WellFormed(given) /\ SizeFitsInt(given))
        => FieldsExact

\* the segments other than the two closing delimiters follow the layout
WellFormedButClosing(g) ==
    /\ g.lb = <<"[">> /\ g.q1 = Quote
    /\ Len(g.toks) = 3
    /\ IsNumber(g.st) /\ IsNumber(g.sz)

\* C2: a line that lacks the closing ] of the timestamp or the closing " of
\* the request ends in a parse failure; no record is returned for it.
C2_MissingClosingDelimiterFails ==
    (pstate \in ParserFinal /\ WellFormedButClosing(given)
        /\ (given.rb = <<>> \/ given.q2 = <<>>))
        => pstate # "Done"

\* C3: every start offset handed to substr is at most the line length, and
\* the fields of the request are read from a vector of at least three tokens.
C3_OffsetsAndIndexesInRange ==
    /\ \A i \in 1..Len(starts) : starts[i] >= 0 /\ starts[i] <= Len(line)
    /\ pstate \in {"Status", "Size", "Done"} => Len(tokens) >= 3

\* the segments other than the request follow the layout
WellFormedButRequest(g) ==
    /\ g.lb = <<"[">> /\ g.rb = <<"]">>
    /\ g.q1 = Quote /\ g.q2 = Quote
    /\ IsNumber(g.st) /\ IsNumber(g.sz)

\* C4: a line whose request splits into fewer than three tokens ends in a
\* parse failure.
C4_FewerThanThreeTokensFails ==
    (pstate \in ParserFinal /\ WellFormedButRequest(given)
        /\ Len(given.toks) < 3)
        => pstate = "Thrown"

\* the segments other than the status follow the layout
WellFormedButStatus(g) ==
    /\ g.lb = <<"[">> /\ g.rb = <<"]">>
    /\ g.q1 = Quote /\ g.q2 = Quote
    /\ Len(g.toks) = 3
    /\ IsNumber(g.sz)

\* C5: a line whose status field is not an integer ends in a parse failure,
\* not in a record with a default status code.
C5_NonIntegerStatusFails ==
    (pstate \in ParserFinal /\ WellFormedButStatus(given)
        /\ ~IsNumber(given.st))
        => pstate # "Done"

\* ------------------------------------------------------------------------
\* Properties of getConnectionAttempts, main and the report
\* ------------------------------------------------------------------------

\* the records of s whose client source is k, in the order of s
OfSource(s, k) == SelectSeq(s, LAMBDA r : r.clientSource = k)

\* C6: the mapping of getConnectionAttempts holds exactly one group per
\* distinct client source among the records parsed so far, and each group is
\* the sequence of the records of that source in input order.
C6_OneGroupPerClientSource ==
    /\ DOMAIN connections = {parsed[i].clientSource : i \in 1..Len(parsed)}
    /\ \A k \in DOMAIN connections : connections[k] = OfSource(parsed, k)

\* two records of one client with a record of another client between them
C6_Witness ==
    /\ Len(parsed) = 3
    /\ parsed[1].clientSource = parsed[3].clientSource
    /\ parsed[1].clientSource # parsed[2].clientSource
    /\ Len(connections[parsed[1].clientSource]) = 2

\* the number of records of a group with the status code c
StatusCount(records, c) ==
    Cardinality({j \in 1..Len(records) : records[j].httpStatusCode = c})

\* C7: in every printed table the counter of each of the nine codes is the
\* number of records of the group with that status code, which is also what
\* countHttpResults returns; records with another code are in the group and
\* counted nowhere.
C7_CountersTallyStatusCodes ==
    \A i \in 1..Len(output) :
        LET records == totalConnections[output[i].source]
        IN  /\ DOMAIN output[i].totals = Tracked
            /\ \A c \in Tracked :
                  /\ output[i].totals[c] = StatusCount(records, c)
                  /\ output[i].totals[c] = countHttpResults(records, c)

\* a printed table of a group holding a 503 and a record no counter exists for
C7_Witness ==
    \E i \in 1..Len(output) :
        LET records == totalConnections[output[i].source]
        IN  /\ Len(records) = 2
            /\ records[1].httpStatusCode = 302
            /\ records[2].httpStatusCode = 503
            /\ output[i].totals[503] = 1

\* the records of client k in the mappings of the sources merged so far, one
\* source after the other
RECURSIVE ConcatOfSources(_, _)
ConcatOfSources(sources, k) ==
    IF sources = <<>> THEN <<>>
    ELSE (IF k \in DOMAIN Head(sources).connections
          THEN Head(sources).connections[k] ELSE <<>>)
         \o ConcatOfSources(Tail(sources), k)

\* C8: the merged record sequence of a client is the sequence of the earlier
\* sources followed by the sequence of the later source, each in its order.
C8_MergedIsConcatenation ==
    \A k \in DOMAIN totalConnections :
        totalConnections[k] = ConcatOfSources(perSource, k)

\* the nine counters of every client of a mapping
CountersOf(m) == [k \in DOMAIN m |-> CountTotals(m[k], NoTotals)]

\* the sum over the sources of the counter of client k for the code c
RECURSIVE SumOfSources(_, _, _)
SumOfSources(sources, k, c) ==
    IF sources = <<>> THEN 0
    ELSE (IF k \in DOMAIN Head(sources).connections
          THEN StatusCount(Head(sources).connections[k], c) ELSE 0)
         + SumOfSources(Tail(sources), k, c)

\* combining a and b gives the same counters as combining b and a
MergeCommutes(a, b) ==
    CountersOf(MergeInto(a, b)) = CountersOf(MergeInto(b, a))

\* combining (a and b) and c gives the same counters as combining a and
\* (b and c)
MergeAssociates(a, b, c) ==
    CountersOf(MergeInto(MergeInto(a, b), c))
        = CountersOf(MergeInto(a, MergeInto(b, c)))

\* C9: the counters obtained from the merged mapping are the sums of the
\* sources' counters, and combining the sources' mappings is commutative
\* and associative on the counters.  (The sources are merged in every order
\* in some run, so the mappings are taken in the order of the run.)
C9_CountersOrderIndependent ==
    LET n == Len(perSource)
        m == [i \in 1..n |-> perSource[i].connections]
    IN  /\ \A k \in DOMAIN totalConnections : \A c \in Tracked :
              CountersOf(totalConnections)[k][c] = SumOfSources(perSource, k, c)
        /\ pc = "report" /\ output = <<>> =>
              /\ \A i, j \in 1..n : i < j => MergeCommutes(m[i], m[j])
              /\ \A i, j, k \in 1..n :
                    i < j /\ j < k => MergeAssociates(m[i], m[j], m[k])

\* three sources merged, each with a record of the same client
C9_Witness ==
    /\ pc = "report"
    /\ Len(perSource) = 3
    /\ \E k \in DOMAIN totalConnections :
          /\ \A i \in 1..3 : k \in DOMAIN perSource[i].connections
          /\ CountersOf(totalConnections)[k][200] = 2

PrintedSources == [i \in 1..Len(output) |-> output[i].source]

\* C10: the tables are printed in the order in which the client sources
\* were first seen in the input.
C10_TablesInDiscoveryOrder ==
    pc = "done" => PrintedSources = discovered

\* C10, amended: the tables are printed in ascending order of the client
\* source strings compared byte by byte (the table of B before the table of
\* a), one table per client source, whatever the order in which the sources
\* were first seen.
C10_TablesInKeyOrder ==
    /\ \A i, j \in 1..Len(output) :
          /\ i < j => LexLess(output[i].source, output[j].source)
          /\ output[i].source = <<"B">> /\ output[j].source = <<"a">> => i < j
    /\ pc = "done" => Range(PrintedSources) = Range(discovered)

\* client a was seen before client B and the report is complete
C10_Witness ==
    /\ pc = "done"
    /\ discovered = <<<<"a">>, <<"B">>>>
    /\ Len(output) = 2

\* ------------------------------------------------------------------------
\* getSpacerStrings on its own (SpecSpacer)
\* ------------------------------------------------------------------------

\* std::string(n, ' ')
Spaces(n) == [i \in 1..n |-> " "]

HEADER_CLIENT_SRC == <<"S", "o", "u", "r", "c", "e">>

\* what a call of getSpacerStrings ends with when a length wraps below zero:
\* the length is a size_t no string can have, the constructor throws
SpacerThrown == [state |-> "Thrown", first |-> <<>>, second |-> <<>>]

\* getSpacerStrings with the left spacer taken as half the difference
getSpacerStringsOfDifference(width, centreString) ==
    LET n1 == (width - Len(centreString)) \div 2
    IN  IF width < Len(centreString) THEN SpacerThrown
        ELSE [state |-> "Returned", first |-> Spaces(n1),
              second |-> Spaces(width - n1 - Len(centreString))]

\* getSpacerStrings, lines 444-449
getSpacerStrings(width, centreString) ==
    LET n1 == (width \div 2) - (Len(centreString) \div 2)
    IN  IF n1 < 0 THEN SpacerThrown
        ELSE LET str1 == Spaces(n1)
                 n2 == width - Len(str1) - Len(centreString)
             IN  IF n2 < 0 THEN SpacerThrown
                 ELSE [state |-> "Returned", first |-> str1,
                       second |-> Spaces(n2)]

MaxWidth == 12

\* std::to_string of the largest uint32_t
UInt32Max == <<"4", "2", "9", "4", "9", "6", "7", "2", "9", "5">>

\* std::to_string of counter values of every number of digits
CounterTexts == {Decimal(0)} \cup {SubSeq(UInt32Max, 1, n) : n \in 1..10}

CentreStrings == CounterTexts \cup {HEADER_CLIENT_SRC, <<>>}

InitSpacer ==
    /\ ParserIdle
    /\ MainEntry
    /\ spWidth \in 0..MaxWidth
    /\ spCentre \in CentreStrings
    /\ spResult = SpacerNone
    /\ splitStr = <<>>
    /\ splitDelims = {}
    /\ splitTokens = <<>>
    /\ splitResult = "none"

CallSpacer ==
    /\ spResult = SpacerNone
    /\ spResult' = getSpacerStrings(spWidth, spCentre)
    /\ UNCHANGED <<spWidth, spCentre, splitStr, splitDelims, splitTokens,
                   splitResult, parserVars, mainVars>>

NextSpacer == CallSpacer

SpecSpacer == InitSpacer /\ [][NextSpacer]_vars

\* the calls printUniqueIpStats makes: the header of a source longer than
\* the label, the header of any other source, a counter cell
ReportCall ==
    \/ spCentre = HEADER_CLIENT_SRC /\ spWidth > Len(HEADER_CLIENT_SRC)
    \/ spCentre = HEADER_CLIENT_SRC /\ spWidth = Len(HEADER_CLIENT_SRC) + 2
    \/ spCentre \in CounterTexts /\ spWidth = 11

SpacerReturned == spResult.state = "Returned"

\* C11 as stated: a counter cell is 11 wide with floor((11 - len)/2) spaces
\* on the left and the rest on the right, the same two paddings are returned
\* for every width >= len(s), and the calls of the report never underflow
C11_PaddingIsHalfTheDifference ==
    spResult # SpacerNone =>
        /\ spWidth >= Len(spCentre) =>
              /\ SpacerReturned
              /\ Len(spResult.first) = (spWidth - Len(spCentre)) \div 2
              /\ Len(spResult.second) =
                    spWidth - Len(spResult.first) - Len(spCentre)
        /\ ReportCall => SpacerReturned

\* C11 amended: a counter cell is 11 wide with floor((11 - len)/2) spaces on
\* the left and the rest on the right; for every width >= len(s) the two
\* spacers and s fill the width and the left one is floor((width - len)/2),
\* one more when width is even and len is odd; the calls of the report never
\* underflow
C11_PaddingOfHalves ==
    spResult # SpacerNone =>
        /\ spWidth = 11 /\ spCentre \in CounterTexts =>
              /\ SpacerReturned
              /\ Len(spResult.first) = (11 - Len(spCentre)) \div 2
              /\ Len(spResult.second) = 11 - Len(spResult.first) - Len(spCentre)
              /\ Len(spResult.first \o spCentre \o spResult.second) = 11
        /\ spWidth >= Len(spCentre) =>
              /\ SpacerReturned
              /\ Len(spResult.first \o spCentre \o spResult.second) = spWidth
              /\ Len(spResult.first) =
                    IF spWidth % 2 = 0 /\ Len(spCentre) % 2 = 1
                    THEN (spWidth - Len(spCentre)) \div 2 + 1
                    ELSE (spWidth - Len(spCentre)) \div 2
        /\ ReportCall => SpacerReturned

\* the cell of the largest counter has been rendered
C11_Witness ==
    /\ SpacerReturned
    /\ spWidth = 11
    /\ spCentre = UInt32Max
    /\ spResult.first = <<>>
    /\ spResult.second = <<" ">>

\* ------------------------------------------------------------------------
\* The text of a table
\* ------------------------------------------------------------------------

\* the counters in the order of their columns
TrackedOrder == <<200, 204, 301, 400, 401, 403, 404, 500, 503>>

\* std::string(n, '-')
Dashes(n) == [i \in 1..n |-> "-"]

\* lines 477-481: the spacers around the label of the source column
SourceSpacers(k) ==
    IF Len(HEADER_CLIENT_SRC) < Len(k)
    THEN getSpacerStrings(Len(k), HEADER_CLIENT_SRC)
    ELSE getSpacerStrings(Len(HEADER_CLIENT_SRC) + 2, HEADER_CLIENT_SRC)

\* lines 483-484: the header row
HeaderRow(k) ==
    <<"|">> \o SourceSpacers(k).first \o HEADER_CLIENT_SRC
            \o SourceSpacers(k).second
            \o Flatten([i \in 1..Len(TrackedOrder) |->
                           <<"|", " ", "T", "o", "t", "a", "l", " ">>
                           \o Decimal(TrackedOrder[i]) \o <<" ">>])
            \o <<"|">>

\* lines 485-486: the separator row
SeparatorRow(k) ==
    <<"|">> \o Dashes(Len(SourceSpacers(k).first) + Len(HEADER_CLIENT_SRC)
                        + Len(SourceSpacers(k).second))
            \o Flatten([i \in 1..Len(TrackedOrder) |-> <<"|">> \o Dashes(11)])
            \o <<"|">>

\* lines 515-517: the cell of one counter
CountCell(total) ==
    <<"|">> \o getSpacerStrings(11, Decimal(total)).first \o Decimal(total)
            \o getSpacerStrings(11, Decimal(total)).second

\* lines 513-551: the data row, the client source as it is and nine cells
DataRow(k, totals) ==
    <<"|">> \o k
            \o Flatten([i \in 1..Len(TrackedOrder) |->
                           CountCell(totals[TrackedOrder[i]])])
            \o <<"|">>

\* line 551: the rule after a table
Rule == Dashes(10)

\* the lines printUniqueIpStats writes for a table of the report
TableText(t) ==
    <<HeaderRow(t.source), SeparatorRow(t.source), DataRow(t.source, t.totals),
      <<>>, Rule, <<>>>>

\* the width of the first column of a row: what stands between its first
\* two bars
SourceColumnWidth(row) == Find(row, "|", 1) - 1

Max(a, b) == IF a >= b THEN a ELSE b

\* C12: the source column is max(len("Source"), len(client source)) wide
\* and never wider than 80, also for a client source longer than 80.
C12_SourceColumnIsLongerOfBothCapped ==
    \A i \in 1..Len(output) :
        LET k == output[i].source
            w == SourceColumnWidth(TableText(output[i])[1])
        IN  /\ w <= MaxColumnWidth
            /\ Len(k) <= MaxColumnWidth =>
                  w = Max(Len(HEADER_CLIENT_SRC), Len(k))

\* C13: for a client source shorter than the label "Source" the source
\* column is the label and two spaces wide, in the header row, the separator
\* row and the data row alike.
C13_ShortSourceColumnHasDefaultWidth ==
    \A i \in 1..Len(output) :
        Len(output[i].source) < Len(HEADER_CLIENT_SRC) =>
            \A r \in 1..3 :
                SourceColumnWidth(TableText(output[i])[r])
                    = Len(HEADER_CLIENT_SRC) + 2

\* ------------------------------------------------------------------------
\* Properties of a whole run (Spec)
\* ------------------------------------------------------------------------

\* the number of records in the mappings of the sources
RECURSIVE RecordsIn(_)
RecordsIn(sources) ==
    IF sources = <<>> THEN 0
    ELSE RecordCount(Head(sources).connections,
                     DOMAIN Head(sources).connections)
         + RecordsIn(Tail(sources))

\* C14: a line whose parsing fails is skipped and counted, and the lines
\* after it are still parsed: the process goes on, the mapping is the one
\* of the lines that gave a record, in their order, and the number of skips
\* is the number of lines read that gave no record.
C14_FailingLinesSkippedAndCounted ==
    /\ pc # "crashed"
    /\ DOMAIN connections = {parsed[i].clientSource : i \in 1..Len(parsed)}
    /\ \A k \in DOMAIN connections : connections[k] = OfSource(parsed, k)
    /\ errors = LinesRead - Len(parsed) - RecordsIn(perSource)

\* C15: whatever the input, the run does not abort: it is in the loop over
\* the sources, in the report or has returned, and once it has returned the
\* head of the report holds the number of clients and one table per client
\* has been printed.
C15_RunReachesReportAndReturns ==
    /\ pc \in {"main", "report", "done"}
    /\ pc = "done" =>
          /\ totalUniqueIps = Cardinality(DOMAIN totalConnections)
          /\ Len(output) = Cardinality(DOMAIN totalConnections)

\* the client sources of the mappings of the sources
ClientsOf(sources) ==
    UNION {DOMAIN sources[i].connections : i \in 1..Len(sources)}

\* C16: the report holds exactly one table block (header row, separator
\* row, one data row, rule) per client source found in any of the sources,
\* also for a client found in several sources, and the number printed after
\* "Total Unique IPs" is the number of table blocks.
C16_OneTablePerUniqueClient ==
    pc = "done" =>
        /\ {output[i].source : i \in 1..Len(output)} = ClientsOf(perSource)
        /\ \A i, j \in 1..Len(output) :
              output[i].source = output[j].source => i = j
        /\ totalUniqueIps = Len(output)
        /\ \A i \in 1..Len(output) :
              LET text == TableText(output[i])
                  k == output[i].source
              IN  /\ Len(text) = 6
                  /\ SubSeq(text[1], 1, 1) = <<"|">>
                  /\ FindStr(text[1], HEADER_CLIENT_SRC) # NPOS
                  /\ text[2] = [c \in 1..Len(text[1]) |->
                                   IF text[1][c] = "|" THEN "|" ELSE "-"]
                  /\ SubSeq(text[3], 1, Len(k) + 2) = <<"|">> \o k \o <<"|">>
                  /\ text[5] = Rule

\* a run has returned that read the same client from two sources and
\* printed two tables
C16_Witness ==
    /\ pc = "done"
    /\ Len(perSource) >= 2
    /\ DOMAIN perSource[1].connections \cap DOMAIN perSource[2].connections # {}
    /\ Len(output) = 2
    /\ totalUniqueIps = 2

\* ------------------------------------------------------------------------
\* More properties of the parser (SpecParse)
\* ------------------------------------------------------------------------

\* the segments other than the size follow the layout
WellFormedButSize(g) ==
    /\ g.lb = <<"[">> /\ g.rb = <<"]">>
    /\ g.q1 = Quote /\ g.q2 = Quote
    /\ Len(g.toks) = 3
    /\ IsNumber(g.st)

\* C17: a line whose size field is the placeholder - is parsed into a record
\* with the response size 0, and the response size of a returned record is
\* never negative (stated for the lines whose other segments follow the
\* layout).
C17_PlaceholderIsZeroSizeNeverNegative ==
    /\ (pstate \in ParserFinal /\ WellFormedButSize(given)
           /\ given.sz = <<"-">>)
          => (pstate = "Done" /\ connection.responseSize = 0)
    /\ (pstate = "Done" /\ WellFormedButSize(given))
          => connection.responseSize >= 0

\* the segments other than the opening [ of the timestamp follow the layout
WellFormedButOpening(g) ==
    /\ g.rb = <<"]">>
    /\ g.q1 = Quote /\ g.q2 = Quote
    /\ Len(g.toks) = 3
    /\ IsNumber(g.st) /\ IsNumber(g.sz)

\* the offset a comes before the offset b, both of type size_t: npos is the
\* largest value
ComesBefore(a, b) == a # NPOS /\ (b = NPOS \/ a < b)

\* the steps of the parser in their order
StepOrder ==
    <<"Source", "ClientId", "UserId", "Timestamp", "RequestLine", "Status",
      "Size", "Done">>

\* C18: the parser takes the steps Source, ClientId, UserId, Timestamp,
\* RequestLine, Status, Size in this order and each field starts after the
\* start of the field before it: the offset never moves backward (stated for
\* the lines whose segments other than the opening [ follow the layout).
C18_OffsetNeverMovesBackward ==
    WellFormedButOpening(given) =>
        /\ \A i \in 1..(Len(starts) - 1) : ComesBefore(starts[i], starts[i + 1])
        /\ pstate \in Range(StepOrder) =>
              Len(starts) = (CHOOSE n \in 1..Len(StepOrder) :
                                StepOrder[n] = pstate) - 1

\* ------------------------------------------------------------------------
\* splitString on its own (SpecSplit)
\* ------------------------------------------------------------------------

MaxStr == 4

\* the characters the strings are made of
SplitChars == {"G", "/", " ", "\t"}

\* the delimiters parseConnectionFromLine passes, and the space alone
DelimiterSets == {{" ", "\t", "\n", "\r"}, {" "}}

InitSplit ==
    /\ ParserIdle
    /\ MainEntry
    /\ spWidth = 0
    /\ spCentre = <<>>
    /\ spResult = SpacerNone
    /\ splitStr \in UNION {[1..n -> SplitChars] : n \in 0..MaxStr}
    /\ splitDelims \in DelimiterSets
    /\ splitTokens = <<>>
    /\ splitResult = "none"

\* lines 359-375: one call of splitString
CallSplit ==
    /\ splitResult = "none"
    /\ splitTokens' = splitTokens \o splitString(splitStr, splitDelims)
    /\ splitResult' = IF Len(splitTokens') > 0 THEN "true" ELSE "false"
    /\ UNCHANGED <<splitStr, splitDelims, spWidth, spCentre, spResult,
                   parserVars, mainVars>>

NextSplit == CallSplit

SpecSplit == InitSplit /\ [][NextSplit]_vars

\* the maximal runs of non-delimiter characters of s, as pairs of their
\* first and last position
MaximalRuns(s, delims) ==
    {<<i, j>> \in (1..Len(s)) \X (1..Len(s)) :
        /\ i <= j
        /\ \A x \in i..j : s[x] \notin delims
        /\ i = 1 \/ s[i - 1] \in delims
        /\ j = Len(s) \/ s[j + 1] \in delims}

\* the runs as strings, from left to right
RunsInOrder(s, delims) ==
    LET runs == MaximalRuns(s, delims)
        nth(n) == CHOOSE r \in runs :
                     Cardinality({q \in runs : q[1] < r[1]}) = n - 1
    IN  [n \in 1..Cardinality(runs) |-> SubSeq(s, nth(n)[1], nth(n)[2])]

\* C19: splitString appends exactly the maximal runs of non-delimiter
\* characters of the string, in order, so that no token is empty or holds a
\* delimiter, and returns true exactly when the string holds a token.
C19_TokensAreMaximalRuns ==
    splitResult # "none" =>
        /\ splitTokens = RunsInOrder(splitStr, splitDelims)
        /\ \A i \in 1..Len(splitTokens) :
              /\ splitTokens[i] # <<>>
              /\ \A x \in 1..Len(splitTokens[i]) :
                    splitTokens[i][x] \notin splitDelims
        /\ splitResult = "true" <=> MaximalRuns(splitStr, splitDelims) # {}

\* ------------------------------------------------------------------------
\* More properties of a whole run (Spec)
\* ------------------------------------------------------------------------

\* the number of times the record r occurs in the sequence s
Occurrences(s, r) == Cardinality({i \in 1..Len(s) : s[i] = r})

\* C20: after any number of sources has been combined, the merged sequence
\* of every client is as long as the sequences of that client in the
\* mappings of the sources together and holds every record as often as they
\* do (none lost, none duplicated), the merged mapping holds the clients of
\* all sources, and no group of a per-source mapping or of the merged
\* mapping is empty.
C20_MergeKeepsEveryRecord ==
    /\ DOMAIN totalConnections = ClientsOf(perSource)
    /\ \A k \in DOMAIN totalConnections :
          LET all == ConcatOfSources(perSource, k)
          IN  /\ Len(totalConnections[k]) = Len(all)
              /\ \A i \in 1..Len(all) :
                    Occurrences(totalConnections[k], all[i])
                        = Occurrences(all, all[i])
              /\ Len(totalConnections[k]) >= 1
    /\ \A k \in DOMAIN connections : Len(connections[k]) >= 1
    /\ \A i \in 1..Len(perSource) :
          \A k \in DOMAIN perSource[i].connections :
              Len(perSource[i].connections[k]) >= 1

\* three sources with a record of the same client each have been combined
C20_Witness ==
    /\ Len(perSource) = 3
    /\ \E k \in DOMAIN totalConnections :
          /\ \A i \in 1..3 : k \in DOMAIN perSource[i].connections
          /\ Len(totalConnections[k]) = 3
====
